---- MODULE Spec2Model ----
(***************************************************************************)
(* Human-in-the-loop tool-call reconciliation of the chat agents:          *)
(* cleanupMessages, processToolCalls and formatFlightResults               *)
(* (src/src/utils.ts) and the turn drivers ChatAgent.onChatMessage,        *)
(* ChatAgent.executeTask and FlightAgent.onChatMessage                     *)
(* (src/unnamed/part_000).                                                 *)
(*                                                                         *)
(* A string of the program that the code takes apart (a part's type) is a  *)
(* sequence of tokens; every other string is a TLA+ string.  A message    *)
(* is a record (id, role, hasParts, parts, createdAt); a part is a record *)
(* (type, toolCallId, state, input, output, errorText, text).  A field   *)
(* the JavaScript object does not have holds Undefined.                   *)
(***************************************************************************)
EXTENDS Integers, Sequences, FiniteSets, Bags, TLC

\* ---------------------------------------------------------------- bounds
\* Longest stored conversation drawn in Init.
MaxMsgs == 2
\* Number of chat turns (calls of onChatMessage) of one session.
MaxTurns == 2
\* Number of events of the inference stream that are merged in one turn.
MaxStream == 1
\* Number of scheduled tasks that run in one session.
MaxTasks == 1
\* Longest offers array formatFlightResults is applied to.
MaxOffers == 2

\* ------------------------------------------------------------- constants
Undefined == "<undefined>"

\* APPROVAL.YES / APPROVAL.NO of ./shared: the two decision sentinels.
APPROVAL_YES == "Yes, confirmed."
APPROVAL_NO == "No, denied."

NoExecuteError == "Error: No execute function found on tool"
DeniedError == "Error: User denied access to tool execution"

\* JavaScript truthiness of the string/undefined values of the model.
Truthy(v) == v # Undefined /\ v # ""

\* ------------------------------------------------------ execution registry
\* The own keys of the `executions` object handed to processToolCalls, each
\* with what is stored under it: "fn" an async executor, "none" a falsy value.
executions == [getWeather |-> "fn", scheduleTask |-> "fn", brokenTool |-> "none"]

\* The registry FlightAgent hands to processToolCalls: {} (part_000 153).
flightExecutions == [k \in {} |-> "fn"]

\* Keys every JavaScript object inherits from Object.prototype; `key in obj`
\* is true of them as well.
ObjectPrototypeKeys == {"toString"}

\* isValidToolName(key, obj): `key in obj`.
isValidToolName(key, obj) == key \in (DOMAIN obj) \cup ObjectPrototypeKeys

\* executions[toolName]: the own value, else the inherited function.
Lookup(obj, key) ==
    IF key \in DOMAIN obj THEN obj[key]
    ELSE IF key \in ObjectPrototypeKeys THEN "inherited"
    ELSE Undefined

\* What an executor can resolve with.  Object.prototype.toString called with
\* no receiver returns "[object Undefined]".
ExecutorValues(toolName) ==
    CASE toolName = "getWeather" -> {"22C, sunny"}
      [] toolName = "scheduleTask" -> {"Task scheduled"}
      [] OTHER -> {"[object Undefined]"}


\* ------------------------------------------------------------------ parts
TextPart ==
    [type |-> <<"text">>, toolCallId |-> 0, state |-> Undefined,
     input |-> 0, output |-> Undefined, errorText |-> Undefined,
     text |-> <<"hello">>]

ToolPart(name, st, out, err) ==
    [type |-> <<"tool-", name>>, toolCallId |-> 0, state |-> st,
     input |-> 0, output |-> out, errorText |-> err, text |-> <<>>]

DynamicPart(st, out) ==
    [type |-> <<"dynamic-tool">>, toolCallId |-> 0, state |-> st,
     input |-> 0, output |-> out, errorText |-> Undefined, text |-> <<>>]

\* isStaticToolUIPart(part): part.type.startsWith("tool-").
isStaticToolUIPart(part) == part.type[1] = "tool-"

\* str.replace(pattern, ""): the first occurrence of the token is removed.
RECURSIVE ReplaceFirst(_, _)
ReplaceFirst(str, pattern) ==
    IF str = <<>> THEN <<>>
    ELSE IF Head(str) = pattern THEN Tail(str)
    ELSE <<Head(str)>> \o ReplaceFirst(Tail(str), pattern)

\* part.type.replace("tool-", ""), read as a property key.
ToolNameOf(part) ==
    LET rest == ReplaceFirst(part.type, "tool-")
    IN  IF Len(rest) = 1 THEN rest[1] ELSE Undefined

\* --------------------------------------------------------------- messages
Msg(role, ps) ==
    [id |-> 0, role |-> role, hasParts |-> TRUE, parts |-> ps, createdAt |-> 0]

\* The messages a stored conversation is drawn from.
MessagePool ==
    << Msg("user", <<TextPart>>),
       Msg("assistant", <<ToolPart("getWeather", "output-available", APPROVAL_YES, Undefined)>>),
       Msg("assistant", <<ToolPart("getWeather", "output-available", APPROVAL_YES, Undefined),
                          ToolPart("scheduleTask", "output-available", APPROVAL_YES, Undefined)>>),
       Msg("assistant", <<TextPart,
                          ToolPart("getWeather", "output-available", APPROVAL_NO, Undefined)>>),
       Msg("assistant", <<ToolPart("getWeather", "output-available", "18C, rain", Undefined),
                          ToolPart("getLocalTime", "output-available", APPROVAL_YES, Undefined)>>),
       Msg("assistant", <<ToolPart("getWeather", "input-streaming", Undefined, Undefined)>>),
       Msg("assistant", <<ToolPart("scheduleTask", "output-available", APPROVAL_YES, Undefined),
                          ToolPart("getWeather", "input-available", Undefined, Undefined)>>),
       Msg("assistant", <<ToolPart("brokenTool", "output-available", APPROVAL_YES, Undefined),
                          DynamicPart("output-available", APPROVAL_YES)>>),
       Msg("assistant", <<ToolPart("toString", "output-available", APPROVAL_YES, Undefined)>>),
       Msg("assistant", <<ToolPart("getWeather", "input-available", APPROVAL_YES, Undefined),
                          ToolPart("scheduleTask", "input-available", Undefined, "failed")>>),
       [id |-> 0, role |-> "system", hasParts |-> FALSE, parts |-> <<>>,
        createdAt |-> 0] >>

\* The messages a stored conversation of the flight agent is drawn from.  The
\* output of a flight search is an object; the part holds a reference to it
\* (see FlightData).
FlightPool ==
    << Msg("user", <<TextPart>>),
       Msg("assistant", <<ToolPart("search_flights", "output-available", "flights:found", Undefined)>>),
       Msg("assistant", <<TextPart,
                          ToolPart("search_flights", "output-available", "flights:unpriced", Undefined)>>),
       Msg("assistant", <<ToolPart("search_flights", "output-available", "flights:error", Undefined),
                          ToolPart("book_flight", "output-available", APPROVAL_YES, Undefined)>>),
       Msg("assistant", <<ToolPart("search_flights", "output-available", "flights:found", Undefined),
                          ToolPart("search_flights", "input-available", Undefined, Undefined)>>),
       Msg("assistant", <<ToolPart("toString", "output-available", APPROVAL_YES, Undefined)>>) >>

\* A conversation as the session stores it: message ids, call ids and inputs
\* are unique, given by the position in the stored list.
Stamp(list) ==
    [i \in 1..Len(list) |->
        [list[i] EXCEPT
            !.id = i,
            !.parts = [p \in 1..Len(list[i].parts) |->
                          IF list[i].parts[p].type[1] = "text"
                          THEN list[i].parts[p]
                          ELSE [list[i].parts[p] EXCEPT
                                   !.toolCallId = 10 * i + p,
                                   !.input = 100 + 10 * i + p]]]]

\* The increasing index sequences over 1..n of length at most k.
RECURSIVE Selections(_, _)
Selections(n, k) ==
    IF n = 0 THEN {<<>>}
    ELSE LET without == Selections(n - 1, k)
         IN  without \cup {Append(s, n) : s \in {w \in without : Len(w) < k}}

\* The stored conversations of Init: up to MaxMsgs messages of the pool.
Conversations ==
    {Stamp([i \in 1..Len(ix) |-> MessagePool[ix[i]]]) :
        ix \in Selections(Len(MessagePool), MaxMsgs)}

FlightConversations ==
    {Stamp([i \in 1..Len(ix) |-> FlightPool[ix[i]]]) :
        ix \in Selections(Len(FlightPool), MaxMsgs)}

\* --------------------------------------------------------- cleanupMessages
\* Faulty variant of IncompletePart: the input-available case is forgotten.
IncompletePartStreamingOnly(part) ==
    IF ~isStaticToolUIPart(part) THEN FALSE
    ELSE part.state = "input-streaming"

\* The callback of message.parts.some(...), utils.ts 220-227.
IncompletePart(part) ==
    IF ~isStaticToolUIPart(part) THEN FALSE
    ELSE \/ part.state = "input-streaming"
         \/ /\ part.state = "input-available"
            /\ ~Truthy(part.output)
            /\ ~Truthy(part.errorText)

hasIncompleteToolCall(message) ==
    \E p \in 1..Len(message.parts) : IncompletePart(message.parts[p])

\* The callback of messages.filter(...), utils.ts 216-230.
KeepMessage(message) ==
    IF ~message.hasParts THEN TRUE ELSE ~hasIncompleteToolCall(message)

\* Faulty variant of Filter: a message keeps its place and loses only its
\* incomplete parts.
FilterStripsParts(list) ==
    [i \in 1..Len(list) |->
        IF ~list[i].hasParts THEN list[i]
        ELSE [list[i] EXCEPT
                 !.parts = SelectSeq(list[i].parts, LAMBDA part : ~IncompletePart(part))]]

RECURSIVE Filter(_)
Filter(list) ==
    IF list = <<>> THEN <<>>
    ELSE IF KeepMessage(Head(list)) THEN <<Head(list)>> \o Filter(Tail(list))
    ELSE Filter(Tail(list))

\* Faulty variant of cleanupMessages: only the first message with an incomplete tool
\* call is removed.
RECURSIVE RemoveFirstIncomplete(_)
RemoveFirstIncomplete(list) ==
    IF list = <<>> THEN <<>>
    ELSE IF KeepMessage(Head(list))
         THEN <<Head(list)>> \o RemoveFirstIncomplete(Tail(list))
         ELSE Tail(list)

cleanupMessages(list) == Filter(list)

\* ------------------------------------------------- convertToModelMessages
\* The projection of one UI part to the inference call's representation: a
\* text part to a text item, a static tool part to a tool-call item and, once
\* it has an output, a tool-result item; other parts are dropped.
ProjectPart(part) ==
    IF part.type[1] = "text" THEN <<[kind |-> "text", toolCallId |-> 0, value |-> Undefined]>>
    ELSE IF ~isStaticToolUIPart(part) THEN <<>>
    ELSE <<[kind |-> "tool-call", toolCallId |-> part.toolCallId, value |-> Undefined]>>
         \o (IF part.state = "output-available"
             THEN <<[kind |-> "tool-result", toolCallId |-> part.toolCallId,
                     value |-> part.output]>>
             ELSE <<>>)

RECURSIVE ProjectParts(_)
ProjectParts(ps) ==
    IF ps = <<>> THEN <<>> ELSE ProjectPart(Head(ps)) \o ProjectParts(Tail(ps))

convertToModelMessages(list) ==
    [i \in 1..Len(list) |-> [role |-> list[i].role, content |-> ProjectParts(list[i].parts)]]

\* ----------------------------------------------------- formatFlightResults
\* Stand-ins for the three characters outside ASCII that the templates of
\* utils.ts 170-199 hold: U+20AC, U+2022 and U+2192.
EuroSign == "<euro>"
Bullet == "<bullet>"
Arrow == "<arrow>"

\* An object's property is present.
Has(obj, key) == key \in DOMAIN obj

\* formatTime, utils.ts 105-113.  A time string is given by what the pattern
\* of line 106 finds in it: iso says whether it matches, hour and minute are
\* the digit groups it captures, raw is the string itself.
formatTime(time) ==
    IF ~time.iso THEN time.raw
    ELSE LET hour12 == IF time.hour % 12 = 0 THEN 12 ELSE time.hour % 12
             ampm == IF time.hour >= 12 THEN "PM" ELSE "AM"
         IN  ToString(hour12) \o ":" \o time.minute \o " " \o ampm

\* formatDuration, utils.ts 118-124.  A duration string is given by what the
\* pattern of line 119 finds in it: pt says whether it matches, hours and
\* minutes are the optional digit groups, raw is the string itself.
formatDuration(duration) ==
    IF ~duration.pt THEN duration.raw
    ELSE LET hours == IF duration.hours # <<>> THEN ToString(duration.hours[1]) \o "h" ELSE ""
             minutes == IF duration.minutes # <<>> THEN ToString(duration.minutes[1]) \o "m" ELSE ""
         IN  IF hours # "" /\ minutes # "" THEN hours \o " " \o minutes
             ELSE hours \o minutes

\* seg.departure.split(" at ")[1] || seg.departure, utils.ts 178-181: the
\* time that follows the place, or the whole string when it names no place.
AfterAt(stop) == stop.time

\* JSON.stringify of the values formatFlightResults falls back on: null, a
\* string, a number, or an object whose properties are strings and whose
\* keys were set in the order of JSONKeys.
JSONKeys == <<"error", "offers", "status">>

RECURSIVE JSONProperties(_, _)
JSONProperties(obj, keys) ==
    IF keys = <<>> THEN ""
    ELSE LET rest == JSONProperties(obj, Tail(keys))
         IN  IF ~Has(obj, Head(keys)) THEN rest
             ELSE "\"" \o Head(keys) \o "\":\"" \o obj[Head(keys)].v \o "\""
                  \o (IF rest = "" THEN "" ELSE "," \o rest)

JSONstringify(data) ==
    CASE data.kind = "null" -> "null"
      [] data.kind = "string" -> "\"" \o data.v \o "\""
      [] data.kind = "number" -> ToString(data.n)
      [] OTHER -> "{" \o JSONProperties(data.f, JSONKeys) \o "}"

\* The template of utils.ts 170: which mark it puts before the total.
PriceMark(price) == IF price.currency = "EUR" THEN EuroSign ELSE "$"

PriceText(price) == PriceMark(price) \o price.total

\* `${offer.seatsAvailable}`.
SeatsText(offer) ==
    IF Has(offer, "seatsAvailable") THEN ToString(offer.seatsAvailable) ELSE "undefined"

\* utils.ts 189-199: the line of one segment of a flight with stops.
RECURSIVE SegmentLines(_)
SegmentLines(segments) ==
    IF segments = <<>> THEN <<>>
    ELSE LET seg == Head(segments)
         IN  <<"  " \o seg.flightNumber \o ": " \o formatTime(AfterAt(seg.departure))
                \o " " \o Arrow \o " " \o formatTime(AfterAt(seg.arrival))
                \o " (" \o formatDuration(seg.duration) \o ")">>
             \o SegmentLines(Tail(segments))

\* utils.ts 172-204: the lines of one itinerary.
ItineraryLines(offer, airlineName, itinerary) ==
    LET totalDuration == formatDuration(itinerary.duration)
        segments == IF Has(itinerary, "segments") THEN itinerary.segments ELSE <<>>
    IN  IF Len(segments) = 1
        THEN << Bullet \o " " \o airlineName \o " " \o segments[1].flightNumber
                   \o " - " \o PriceText(offer.price),
                "  Departs: " \o formatTime(AfterAt(segments[1].departure))
                   \o " " \o Arrow \o " Arrives: "
                   \o formatTime(AfterAt(segments[1].arrival))
                   \o " (" \o totalDuration \o ", nonstop)",
                "  Seats available: " \o SeatsText(offer),
                "" >>
        ELSE << Bullet \o " " \o airlineName \o " - " \o PriceText(offer.price)
                   \o " (" \o ToString(Len(segments)) \o " stops)" >>
             \o SegmentLines(segments)
             \o << "  Total duration: " \o totalDuration,
                   "  Seats available: " \o SeatsText(offer),
                   "" >>

RECURSIVE ItinerariesLines(_, _, _)
ItinerariesLines(offer, airlineName, itineraries) ==
    IF itineraries = <<>> THEN <<>>
    ELSE ItineraryLines(offer, airlineName, Head(itineraries))
         \o ItinerariesLines(offer, airlineName, Tail(itineraries))

\* utils.ts 167-205: the lines of one offer.
OfferLines(offer, carriers) ==
    LET airlineCode == IF Has(offer, "airlines") /\ offer.airlines # <<>>
                       THEN offer.airlines[1] ELSE "Unknown"
        airlineName == IF Has(carriers, airlineCode) THEN carriers[airlineCode]
                       ELSE airlineCode
    IN  ItinerariesLines(offer, airlineName,
                         IF Has(offer, "itineraries") THEN offer.itineraries ELSE <<>>)

RECURSIVE OffersLines(_, _)
OffersLines(offers, carriers) ==
    IF offers = <<>> THEN <<>>
    ELSE OfferLines(Head(offers), carriers) \o OffersLines(Tail(offers), carriers)

\* lines.join("\n")
RECURSIVE Join(_)
Join(lines) ==
    IF lines = <<>> THEN ""
    ELSE IF Len(lines) = 1 THEN lines[1]
    ELSE lines[1] \o "\n" \o Join(Tail(lines))

\* Reading a property of undefined, or calling a method on it, throws a
\* TypeError: seg.departure.split and seg.arrival.split (utils.ts 178-181,
\* 191-196), formatDuration(seg.duration) (198, 119).
SegmentThrows(seg, single) ==
    \/ ~Has(seg, "departure")
    \/ ~Has(seg, "arrival")
    \/ ~single /\ ~Has(seg, "duration")

\* formatDuration(itinerary.duration), utils.ts 173 and 119.
ItineraryThrows(itinerary) ==
    \/ ~Has(itinerary, "duration")
    \/ LET segments == IF Has(itinerary, "segments") THEN itinerary.segments ELSE <<>>
       IN  \E k \in 1..Len(segments) : SegmentThrows(segments[k], Len(segments) = 1)

\* offer.price.currency, utils.ts 170, and the itineraries of the offer.
OfferThrows(offer) ==
    \/ ~Has(offer, "price")
    \/ LET itineraries == IF Has(offer, "itineraries") THEN offer.itineraries ELSE <<>>
       IN  \E k \in 1..Len(itineraries) : ItineraryThrows(itineraries[k])

\* formatFlightResults, utils.ts 129-209.  The outcome says whether the call
\* threw and, if not, the string it returned; `prices` records for every
\* offer the mark and the text line 170 made of its price.
formatFlightResults(data) ==
    IF data.kind # "object"
    THEN [threw |-> FALSE, value |-> JSONstringify(data), prices |-> <<>>]
    ELSE IF ~Has(data.f, "offers") \/ data.f.offers.kind # "array"
    THEN [threw |-> FALSE, value |-> JSONstringify(data), prices |-> <<>>]
    ELSE LET flightData == data.f
             offers == flightData.offers.items
             carriers == IF Has(flightData, "dictionaries")
                            /\ Has(flightData.dictionaries, "carriers")
                         THEN flightData.dictionaries.carriers
                         ELSE [code \in {} |-> ""]
             count == IF Has(flightData, "totalOffers") /\ flightData.totalOffers # 0
                      THEN flightData.totalOffers ELSE Len(offers)
         IN  IF \E k \in 1..Len(offers) : OfferThrows(offers[k])
             THEN [threw |-> TRUE, value |-> "TypeError", prices |-> <<>>]
             ELSE [threw |-> FALSE,
                   value |-> Join(<<"Found " \o ToString(count) \o " flights:\n">>
                                  \o OffersLines(offers, carriers)),
                   prices |-> [k \in 1..Len(offers) |->
                                  [mark |-> PriceMark(offers[k].price),
                                   text |-> PriceText(offers[k].price)]]]

\* The values the inputs of formatFlightResults are built from.
Midnight == [iso |-> TRUE, hour |-> 0, minute |-> "05", raw |-> "2025-03-01T00:05:00"]
Afternoon == [iso |-> TRUE, hour |-> 14, minute |-> "30", raw |-> "2025-03-01T14:30:00"]
Tomorrow == [iso |-> FALSE, hour |-> 0, minute |-> "", raw |-> "tomorrow"]
LongFlight == [pt |-> TRUE, hours |-> <<2>>, minutes |-> <<45>>, raw |-> "PT2H45M"]
ShortFlight == [pt |-> TRUE, hours |-> <<>>, minutes |-> <<50>>, raw |-> "PT50M"]
SomeHours == [pt |-> FALSE, hours |-> <<>>, minutes |-> <<>>, raw |-> "2 hours"]
Leg(number, dep, arr, dur) ==
    [flightNumber |-> number, departure |-> [place |-> "JFK", time |-> dep],
     arrival |-> [place |-> "CDG", time |-> arr], duration |-> dur]
LegNoDeparture ==
    [flightNumber |-> "AB3", arrival |-> [place |-> "CDG", time |-> Afternoon],
     duration |-> ShortFlight]
LegNoArrival ==
    [flightNumber |-> "AB4", departure |-> [place |-> "JFK", time |-> Midnight],
     duration |-> ShortFlight]

NonstopOffer ==
    [airlines |-> <<"AB">>, price |-> [currency |-> "EUR", total |-> "120.50"],
     itineraries |-> <<[duration |-> LongFlight,
                        segments |-> <<Leg("AB1", Midnight, Afternoon, LongFlight)>>]>>,
     seatsAvailable |-> 4]
UnpricedOffer ==
    [airlines |-> <<"AB">>,
     itineraries |-> <<[duration |-> ShortFlight,
                        segments |-> <<Leg("AB1", Midnight, Afternoon, ShortFlight)>>]>>,
     seatsAvailable |-> 1]

OfferPool ==
    { NonstopOffer,
      [airlines |-> <<"CD", "AB">>, price |-> [currency |-> "USD", total |-> "300.00"],
       itineraries |-> <<[duration |-> LongFlight,
                          segments |-> <<Leg("CD1", Afternoon, Tomorrow, ShortFlight),
                                         Leg("AB2", Midnight, Afternoon, SomeHours)>>]>>,
       seatsAvailable |-> 9],
      [price |-> [currency |-> "GBP", total |-> "89.99"],
       itineraries |-> <<[duration |-> ShortFlight,
                          segments |-> <<Leg("EF1", Afternoon, Afternoon, ShortFlight)>>]>>],
      UnpricedOffer,
      [airlines |-> <<>>, price |-> [currency |-> "USD", total |-> "10.00"],
       seatsAvailable |-> 2],
      [airlines |-> <<"AB">>, price |-> [currency |-> "EUR", total |-> "75.00"],
       itineraries |-> <<[segments |-> <<Leg("AB1", Midnight, Afternoon, ShortFlight)>>]>>,
       seatsAvailable |-> 3],
      [airlines |-> <<"CD">>, price |-> [currency |-> "USD", total |-> "55.00"],
       itineraries |-> <<[duration |-> ShortFlight, segments |-> <<LegNoDeparture>>]>>,
       seatsAvailable |-> 5],
      [airlines |-> <<"CD">>, price |-> [currency |-> "JPY", total |-> "9000"],
       itineraries |-> <<[duration |-> LongFlight,
                          segments |-> <<Leg("CD1", Midnight, Afternoon, ShortFlight),
                                         LegNoArrival>>]>>,
       seatsAvailable |-> 6],
      [airlines |-> <<"AB">>, price |-> [currency |-> "EUR", total |-> "20.00"],
       itineraries |-> <<[duration |-> SomeHours]>>,
       seatsAvailable |-> 7] }

OfferLists == UNION {[1..n -> OfferPool] : n \in 0..MaxOffers}

\* The arguments formatFlightResults is applied to.
FormatInputs ==
    { [kind |-> "null"],
      [kind |-> "string", v |-> "no flights"],
      [kind |-> "number", n |-> 404],
      [kind |-> "object", f |-> [error |-> [kind |-> "string", v |-> "timeout"]]],
      [kind |-> "object", f |-> [offers |-> [kind |-> "string", v |-> ""]]],
      [kind |-> "object", f |-> [offers |-> [kind |-> "string", v |-> "none"],
                                 status |-> [kind |-> "string", v |-> "empty"]]] }
    \cup { [kind |-> "object", f |-> [offers |-> [kind |-> "array", items |-> list]]] :
               list \in OfferLists }
    \cup { [kind |-> "object",
            f |-> [offers |-> [kind |-> "array", items |-> list],
                   totalOffers |-> 12,
                   dictionaries |-> [carriers |-> [AB |-> "Air Bravo"]]]] :
               list \in OfferLists }

\* The objects the outputs of the flight agent's stored tool parts refer to.
FlightData ==
    ("flights:found" :>
        [kind |-> "object",
         f |-> [offers |-> [kind |-> "array", items |-> <<NonstopOffer>>],
                totalOffers |-> 1,
                dictionaries |-> [carriers |-> [AB |-> "Air Bravo"]]]])
    @@ ("flights:unpriced" :>
        [kind |-> "object",
         f |-> [offers |-> [kind |-> "array", items |-> <<UnpricedOffer>>]]])
    @@ ("flights:error" :>
        [kind |-> "object", f |-> [error |-> [kind |-> "string", v |-> "timeout"]]])

\* The test of part_000 160-166.
HasFlightOffers(part) ==
    /\ part.type[1] = "tool-"
    /\ Truthy(part.output)
    /\ part.output \in DOMAIN FlightData
    /\ FlightData[part.output].kind = "object"
    /\ Has(FlightData[part.output].f, "offers")

\* part_000 157-175: the output of a flight search is replaced by its text.
TransformPart(part) ==
    IF HasFlightOffers(part)
    THEN [part EXCEPT !.output = formatFlightResults(FlightData[part.output]).value]
    ELSE part

TransformMessages(list) ==
    [i \in 1..Len(list) |->
        IF ~list[i].hasParts THEN list[i]
        ELSE [list[i] EXCEPT
                 !.parts = [p \in 1..Len(list[i].parts) |-> TransformPart(list[i].parts[p])]]]

\* A call of formatFlightResults in the map of part_000 157-175 throws.
TransformThrows(list) ==
    \E i \in 1..Len(list) : \E p \in 1..Len(list[i].parts) :
        /\ HasFlightOffers(list[i].parts[p])
        /\ formatFlightResults(FlightData[list[i].parts[p].output]).threw

\* ------------------------------------------------------------------ state
VARIABLES
    messages,           \* this.messages: the conversation the session stores
    turn,               \* the number of calls of processToolCalls started so far
    pc,                 \* where the execute callback of the current turn is
    cleanedMessages,    \* the list handed to processToolCalls
    task,               \* the part callbacks of the processToolCalls call
    writer,             \* the events written to the turn's output channel
    calls,              \* the executor invocations made so far (a bag)
    processedMessages,  \* the list processToolCalls returned
    modelMessages,      \* the messages handed to streamText
    previous,           \* history: the list the first of two passes returned
    agent,              \* which agent class the session is: "chat" or "flight"
    tasksRun,           \* the number of executeTask calls so far
    conn,               \* this.mcp: the connection to "flights-server"
    fpc,                \* per onChatMessage call of FlightAgent: where it is
    formatInput,        \* the argument of a direct call of formatFlightResults
    formatOutput        \* what that call returned or threw

\* The onChatMessage calls of a session, in the order they arrive.
Callers == 1..MaxTurns

flightVars == <<agent, conn, fpc>>
formatVars == <<formatInput, formatOutput>>

vars == <<messages, turn, pc, cleanedMessages, task, writer, calls,
          processedMessages, modelMessages, previous, tasksRun,
          flightVars, formatVars>>

\* The `executions` argument of the session's processToolCalls calls:
\* part_000 63 for ChatAgent, part_000 153 for FlightAgent.
Registry == IF agent = "chat" THEN executions ELSE flightExecutions

\* Whether the executor can reject (an async function that throws).
CanReject(toolName) == toolName \in DOMAIN Registry

\* The positions <<message, part>> of a list, in the order the two nested
\* map calls visit them.
RECURSIVE PositionsFrom(_, _)
PositionsFrom(list, i) ==
    IF i > Len(list) THEN <<>>
    ELSE [p \in 1..Len(list[i].parts) |-> <<i, p>>] \o PositionsFrom(list, i + 1)

Positions(list) == PositionsFrom(list, 1)

PositionSet(list) == {Positions(list)[k] : k \in 1..Len(Positions(list))}

PartAt(list, pos) == list[pos[1]].parts[pos[2]]

\* ------------------------------------------------------- processToolCalls
\* Faulty variant of Classify: the DENIED sentinel is taken for an approval.
ClassifyDeniedAsApproved(part) ==
    IF ~isStaticToolUIPart(part) THEN "skip"
    ELSE IF ~isValidToolName(ToolNameOf(part), Registry)
            \/ part.state # "output-available" THEN "skip"
    ELSE IF part.output \in {APPROVAL_YES, APPROVAL_NO}
         THEN IF Lookup(Registry, ToolNameOf(part)) \in {"fn", "inherited"}
              THEN "execute"
              ELSE "noexec"
    ELSE "skip"

\* Faulty variant of Classify: every output but the DENIED sentinel is taken for an
\* approval.
ClassifyAnyOutputAsApproved(part) ==
    IF ~isStaticToolUIPart(part) THEN "skip"
    ELSE IF ~isValidToolName(ToolNameOf(part), Registry)
            \/ part.state # "output-available" THEN "skip"
    ELSE IF part.output # APPROVAL_NO
         THEN IF Lookup(Registry, ToolNameOf(part)) \in {"fn", "inherited"}
              THEN "execute"
              ELSE "noexec"
    ELSE "denied"

\* Faulty variant of Classify: a registry value that is no function is called
\* all the same.
ClassifyCallsMissingExecutor(part) ==
    IF ~isStaticToolUIPart(part) THEN "skip"
    ELSE IF ~isValidToolName(ToolNameOf(part), Registry)
            \/ part.state # "output-available" THEN "skip"
    ELSE IF part.output = APPROVAL_YES THEN "execute"
    ELSE IF part.output = APPROVAL_NO THEN "denied"
    ELSE "skip"

\* What the part callback (utils.ts 43-92) does with a part up to its first
\* await: "skip" returns the part, "denied" and "noexec" have their result at
\* once, "execute" awaits the projection and then the executor.
Classify(part) ==
    IF ~isStaticToolUIPart(part) THEN "skip"
    ELSE IF ~isValidToolName(ToolNameOf(part), Registry)
            \/ part.state # "output-available" THEN "skip"
    ELSE IF part.output = APPROVAL_YES
         THEN IF ~isValidToolName(ToolNameOf(part), Registry) THEN "skip"
              ELSE IF Lookup(Registry, ToolNameOf(part)) \in {"fn", "inherited"}
                   THEN "execute"
                   ELSE "noexec"
    ELSE IF part.output = APPROVAL_NO THEN "denied"
    ELSE "skip"

\* The result a part has without any await.
SyncResult(part) ==
    IF Classify(part) = "noexec" THEN NoExecuteError
    ELSE IF Classify(part) = "denied" THEN DeniedError
    ELSE Undefined

\* Faulty variant of ToolOutputEvent: the event carries the part's old output.
ToolOutputEventStale(part, result, isLate) ==
    [type |-> "tool-output-available", toolCallId |-> part.toolCallId,
     output |-> part.output, phase |-> "resolver", late |-> isLate]

\* dataStream.write({type: "tool-output-available", toolCallId, output}).
\* `phase` and `late` are history: who wrote the event, and whether the
\* processToolCalls call that wrote it had already settled.
ToolOutputEvent(part, result, isLate) ==
    [type |-> "tool-output-available", toolCallId |-> part.toolCallId,
     output |-> result, phase |-> "resolver", late |-> isLate]

\* The state of the part callback at the first suspension of the call.
InitialTask(part) ==
    CASE Classify(part) = "skip" -> [st |-> "returned", result |-> Undefined]
      [] Classify(part) = "execute" -> [st |-> "converting", result |-> Undefined]
      [] OTHER -> [st |-> "written", result |-> SyncResult(part)]

RECURSIVE SyncEvents(_, _)
SyncEvents(list, poss) ==
    IF poss = <<>> THEN <<>>
    ELSE LET part == PartAt(list, Head(poss))
         IN  (IF Classify(part) \in {"noexec", "denied"}
              THEN <<ToolOutputEvent(part, SyncResult(part), FALSE)>>
              ELSE <<>>) \o SyncEvents(list, Tail(poss))

\* The synchronous part of a call of processToolCalls on `list` with a fresh
\* channel: both map calls run every callback up to its first await.
BeginProcessToolCalls(list, prev) ==
    /\ turn' = turn + 1
    /\ cleanedMessages' = list
    /\ task' = [pos \in PositionSet(list) |-> InitialTask(PartAt(list, pos))]
    /\ writer' = SyncEvents(list, Positions(list))
    /\ pc' = "resolving"
    /\ previous' = prev
    /\ processedMessages' = <<>>
    /\ modelMessages' = <<>>

\* No callback of the call is still pending.
Quiescent == \A pos \in DOMAIN task : task[pos].st \notin {"converting", "running"}

\* Faulty variant of StartTurn: the stored messages go to processToolCalls
\* as they are.
StartTurnUncleaned ==
    /\ turn < MaxTurns
    /\ pc \in {"idle", "done", "failed"}
    /\ Quiescent
    /\ agent = "flight" => fpc[turn + 1] = "ready"
    /\ BeginProcessToolCalls(messages, <<>>)
    /\ UNCHANGED <<tasksRun, flightVars, formatVars, messages, calls>>

\* onChatMessage, part_000 52-64 and 145-154: the execute callback starts,
\* cleans the stored messages and calls processToolCalls.  The turns of a
\* session follow one another: a turn starts when the previous one is over
\* and its callbacks have settled; a turn of the flight agent starts when its
\* call of onChatMessage is past the connection block.
StartTurn ==
    /\ turn < MaxTurns
    /\ pc \in {"idle", "done", "failed"}
    /\ Quiescent
    /\ agent = "flight" => fpc[turn + 1] = "ready"
    /\ BeginProcessToolCalls(cleanupMessages(messages), <<>>)
    /\ UNCHANGED <<tasksRun, flightVars, formatVars, messages, calls>>

\* Faulty variant of ExecutorCall: the context holds the projection of the part's
\* own message only.
ExecutorCallOwnMessageOnly(list, pos) ==
    [turn |-> turn, toolName |-> ToolNameOf(PartAt(list, pos)),
     input |-> PartAt(list, pos).input,
     toolCallId |-> PartAt(list, pos).toolCallId,
     messages |-> convertToModelMessages(<<list[pos[1]]>>)]

\* The record of one executor invocation: toolInstance(part.input,
\* {messages: await convertToModelMessages(messages), toolCallId}).
ExecutorCall(list, pos) ==
    [turn |-> turn, toolName |-> ToolNameOf(PartAt(list, pos)),
     input |-> PartAt(list, pos).input,
     toolCallId |-> PartAt(list, pos).toolCallId,
     messages |-> convertToModelMessages(list)]

\* utils.ts 64-69: the projection has resolved and the executor is called.
InvokeExecutor(pos) ==
    /\ task[pos].st = "converting"
    /\ calls' = calls (+) SetToBag({ExecutorCall(cleanedMessages, pos)})
    /\ task' = [task EXCEPT ![pos].st = "running"]
    /\ UNCHANGED <<tasksRun, flightVars, formatVars, messages, turn, pc, cleanedMessages, writer,
                   processedMessages, modelMessages, previous>>

\* utils.ts 66, 81-91: the executor's promise resolves with v; the callback
\* writes the event and returns the updated part.
ExecutorResolves(pos, v) ==
    /\ task[pos].st = "running"
    /\ task' = [task EXCEPT ![pos] = [st |-> "written", result |-> v]]
    /\ writer' = Append(writer, ToolOutputEvent(PartAt(cleanedMessages, pos), v,
                                                pc # "resolving"))
    /\ UNCHANGED <<tasksRun, flightVars, formatVars, messages, turn, pc, cleanedMessages, calls,
                   processedMessages, modelMessages, previous>>

\* utils.ts 66: the executor's promise rejects; the callback's promise
\* rejects with it, nothing is written.
ExecutorRejects(pos) ==
    /\ task[pos].st = "running"
    /\ CanReject(ToolNameOf(PartAt(cleanedMessages, pos)))
    /\ task' = [task EXCEPT ![pos].st = "rejected"]
    /\ UNCHANGED <<tasksRun, flightVars, formatVars, messages, turn, pc, cleanedMessages, writer, calls,
                   processedMessages, modelMessages, previous>>

\* Faulty variant of ProcessedPart: the resolved part is put back into the
\* state of a call that awaits its output.
ProcessedPartResetsState(part, tk) ==
    IF tk.st = "written"
    THEN [part EXCEPT !.output = tk.result, !.state = "input-available"]
    ELSE part

\* The part a callback returns: utils.ts 88-91 for a resolved part, the part
\* itself otherwise.
ProcessedPart(part, tk) ==
    IF tk.st = "written" THEN [part EXCEPT !.output = tk.result] ELSE part

\* utils.ts 95: {...message, parts: processedParts}; utils.ts 40 for a
\* message without parts.
ProcessedMessage(message, i, tks) ==
    IF ~message.hasParts THEN message
    ELSE [message EXCEPT !.parts =
             [p \in 1..Len(message.parts) |-> ProcessedPart(message.parts[p], tks[<<i, p>>])]]

\* Faulty variant of ProcessedList: the messages come back in reverse order.
ProcessedListReversed(list, tks) ==
    [i \in 1..Len(list) |->
        ProcessedMessage(list[Len(list) + 1 - i], Len(list) + 1 - i, tks)]

ProcessedList(list, tks) ==
    [i \in 1..Len(list) |-> ProcessedMessage(list[i], i, tks)]

\* Faulty variant of ReturnProcessed: the list is returned without awaiting the
\* part callbacks.
ReturnProcessedUnawaited ==
    /\ pc = "resolving"
    /\ processedMessages' = ProcessedList(cleanedMessages, task)
    /\ pc' = "returned"
    /\ UNCHANGED <<tasksRun, flightVars, formatVars, messages, turn, cleanedMessages, task, writer, calls,
                   modelMessages, previous>>

\* utils.ts 37, 42, 99: both Promise.all calls resolve once every callback
\* has returned; processToolCalls resolves with the rewritten list.
ReturnProcessed ==
    /\ pc = "resolving"
    /\ \A pos \in DOMAIN task : task[pos].st \in {"returned", "written"}
    /\ processedMessages' = ProcessedList(cleanedMessages, task)
    /\ pc' = "returned"
    /\ UNCHANGED <<tasksRun, flightVars, formatVars, messages, turn, cleanedMessages, task, writer, calls,
                   modelMessages, previous>>

\* utils.ts 37, 42: Promise.all rejects as soon as one callback rejects, while
\* the other callbacks go on; the await of part_000 59 throws, the execute
\* callback rejects and streamText is never reached.
RejectProcessed ==
    /\ pc = "resolving"
    /\ \E pos \in DOMAIN task : task[pos].st = "rejected"
    /\ pc' = "failed"
    /\ UNCHANGED <<tasksRun, flightVars, formatVars, messages, turn, cleanedMessages, task, writer, calls,
                   processedMessages, modelMessages, previous>>

\* part_000 66-97: the processed list is projected, streamText is called
\* with it and its stream is handed to writer.merge.
StreamText ==
    /\ agent = "chat"
    /\ pc = "returned"
    /\ modelMessages' = convertToModelMessages(processedMessages)
    /\ pc' = "streaming"
    /\ UNCHANGED <<tasksRun, flightVars, formatVars, messages, turn, cleanedMessages, task, writer, calls,
                   processedMessages, previous>>

\* part_000 157-199: the flight agent replaces the flight search outputs of
\* the processed list by text, projects the list and calls streamText with
\* it; when formatFlightResults throws, the execute callback rejects.
FlightStreamText ==
    /\ agent = "flight"
    /\ pc = "returned"
    /\ IF TransformThrows(processedMessages)
       THEN pc' = "failed" /\ UNCHANGED modelMessages
       ELSE /\ modelMessages' = convertToModelMessages(TransformMessages(processedMessages))
            /\ pc' = "streaming"
    /\ UNCHANGED <<tasksRun, flightVars, formatVars, messages, turn, cleanedMessages, task,
                   writer, calls, processedMessages, previous>>

MergedCount == Cardinality({k \in 1..Len(writer) : writer[k].phase = "merge"})

\* part_000 97: an event of the inference stream reaches the channel.
MergeWrite ==
    /\ pc = "streaming"
    /\ MergedCount < MaxStream
    /\ writer' = Append(writer, [type |-> "text-delta", toolCallId |-> 0,
                                 output |-> Undefined, phase |-> "merge", late |-> TRUE])
    /\ UNCHANGED <<tasksRun, flightVars, formatVars, messages, turn, pc, cleanedMessages, task, calls,
                   processedMessages, modelMessages, previous>>

\* The inference stream ends; the turn is over.
FinishStream ==
    /\ pc = "streaming"
    /\ pc' = "done"
    /\ UNCHANGED <<tasksRun, flightVars, formatVars, messages, turn, cleanedMessages, task, writer, calls,
                   processedMessages, modelMessages, previous>>

\* FlightAgent.onChatMessage, part_000 132-133: caller c's await of
\* discoverIfConnected("flights-server") resolves; the caller goes past the
\* block when the server is connected and into it otherwise.  The calls of
\* onChatMessage are concurrent: each await lets the others run.
FlightDiscover(c) ==
    /\ agent = "flight"
    /\ fpc[c] = "idle"
    /\ fpc' = [fpc EXCEPT ![c] = IF conn.connected THEN "ready" ELSE "registering"]
    /\ UNCHANGED <<tasksRun, formatVars, agent, conn, messages, turn, pc, cleanedMessages,
                   task, writer, calls, processedMessages, modelMessages, previous>>

\* part_000 134-138: caller c's registerServer("flights-server", ...) is
\* performed and resolves with the server's id.
FlightRegister(c) ==
    /\ agent = "flight"
    /\ fpc[c] = "registering"
    /\ conn' = [conn EXCEPT !.registers = @ + 1]
    /\ fpc' = [fpc EXCEPT ![c] = "connecting"]
    /\ UNCHANGED <<tasksRun, formatVars, agent, messages, turn, pc, cleanedMessages,
                   task, writer, calls, processedMessages, modelMessages, previous>>

\* part_000 139: caller c's connectToServer(id) is performed and resolves;
\* the server is connected from now on.
FlightConnect(c) ==
    /\ agent = "flight"
    /\ fpc[c] = "connecting"
    /\ conn' = [conn EXCEPT !.connects = @ + 1, !.connected = TRUE]
    /\ fpc' = [fpc EXCEPT ![c] = "ready"]
    /\ UNCHANGED <<tasksRun, formatVars, agent, messages, turn, pc, cleanedMessages,
                   task, writer, calls, processedMessages, modelMessages, previous>>

\* The descriptions a scheduled task is run with.
TaskDescriptions == {"send the report"}

\* The message executeTask builds, part_000 106-118.  generateId() yields an
\* id no stored message has; new Date() is read off the count of runs.
TaskMessage(description, n) ==
    [id |-> 1000 + n, role |-> "user", hasParts |-> TRUE,
     parts |-> <<[TextPart EXCEPT
                     !.text = <<"Running scheduled task: ", description>>]>>,
     createdAt |-> n]

\* Faulty variant of ExecuteTask: the new message is put in front of the
\* stored list.
ExecuteTaskPrepends(description) ==
    /\ agent = "chat"
    /\ tasksRun < MaxTasks
    /\ tasksRun' = tasksRun + 1
    /\ messages' = <<TaskMessage(description, tasksRun + 1)>> \o messages
    /\ UNCHANGED <<flightVars, formatVars, turn, pc, cleanedMessages, task, writer,
                   calls, processedMessages, modelMessages, previous>>

\* ChatAgent.executeTask, part_000 103-120: the scheduler calls it at any
\* time; saveMessages stores the list it is given.
ExecuteTask(description) ==
    /\ agent = "chat"
    /\ tasksRun < MaxTasks
    /\ tasksRun' = tasksRun + 1
    /\ messages' = Append(messages, TaskMessage(description, tasksRun + 1))
    /\ UNCHANGED <<flightVars, formatVars, turn, pc, cleanedMessages, task, writer,
                   calls, processedMessages, modelMessages, previous>>

\* The steps of a pending call of processToolCalls.
ResolverStep ==
    \/ \E pos \in DOMAIN task : InvokeExecutor(pos)
    \/ \E pos \in DOMAIN task :
          \E v \in ExecutorValues(ToolNameOf(PartAt(cleanedMessages, pos))) :
              ExecutorResolves(pos, v)
    \/ \E pos \in DOMAIN task : ExecutorRejects(pos)
    \/ ReturnProcessed
    \/ RejectProcessed

Init ==
    /\ agent \in {"chat", "flight"}
    /\ messages \in IF agent = "chat" THEN Conversations ELSE FlightConversations
    /\ turn = 0
    /\ pc = "idle"
    /\ cleanedMessages = <<>>
    /\ task = <<>>
    /\ writer = <<>>
    /\ calls = EmptyBag
    /\ processedMessages = <<>>
    /\ modelMessages = <<>>
    /\ previous = <<>>
    /\ tasksRun = 0
    /\ conn = [connected |-> FALSE, registers |-> 0, connects |-> 0]
    /\ fpc = [c \in Callers |-> "idle"]
    /\ formatInput = [kind |-> "null"]
    /\ formatOutput = <<>>

\* A session of either agent: turns of onChatMessage over the stored
\* conversation, the flight agent's callers connecting first, the chat
\* agent's scheduled tasks running in between.
Next ==
    \/ StartTurn
    \/ ResolverStep
    \/ StreamText
    \/ FlightStreamText
    \/ MergeWrite
    \/ FinishStream
    \/ \E description \in TaskDescriptions : ExecuteTask(description)
    \/ \E c \in Callers : FlightDiscover(c)
    \/ \E c \in Callers : FlightRegister(c)
    \/ \E c \in Callers : FlightConnect(c)

Spec == Init /\ [][Next]_vars

\* processToolCalls called directly on a list, and called again on the list
\* it returned.
FirstPass ==
    /\ turn = 0
    /\ BeginProcessToolCalls(messages, <<>>)
    /\ UNCHANGED <<tasksRun, flightVars, formatVars, messages, calls>>

SecondPass ==
    /\ turn = 1
    /\ pc = "returned"
    /\ BeginProcessToolCalls(processedMessages, processedMessages)
    /\ UNCHANGED <<tasksRun, flightVars, formatVars, messages, calls>>

NextTwoPass ==
    \/ FirstPass
    \/ SecondPass
    \/ ResolverStep

SpecTwoPass == Init /\ [][NextTwoPass]_vars

\* formatFlightResults called on its own: an argument is chosen and the
\* function is applied to it once.
InitFormat ==
    /\ formatInput \in FormatInputs
    /\ formatOutput = <<>>
    /\ agent = "flight"
    /\ messages = <<>>
    /\ turn = 0
    /\ pc = "idle"
    /\ cleanedMessages = <<>>
    /\ task = <<>>
    /\ writer = <<>>
    /\ calls = EmptyBag
    /\ processedMessages = <<>>
    /\ modelMessages = <<>>
    /\ previous = <<>>
    /\ tasksRun = 0
    /\ conn = [connected |-> FALSE, registers |-> 0, connects |-> 0]
    /\ fpc = [c \in Callers |-> "idle"]

ApplyFormat ==
    /\ formatOutput = <<>>
    /\ formatOutput' = <<formatFlightResults(formatInput)>>
    /\ UNCHANGED <<formatInput, tasksRun, flightVars, messages, turn, pc, cleanedMessages,
                   task, writer, calls, processedMessages, modelMessages, previous>>

NextFormat == ApplyFormat

SpecFormat == InitFormat /\ [][NextFormat]_vars

\* =================================================================== claims
\* The call of processToolCalls has returned its list to the caller.
Returned == pc \in {"returned", "streaming", "done"}

\* The number of executor invocations of turn t made for call id `id`.
CallsFor(t, id) == {c \in BagToSet(calls) : c.turn = t /\ c.toolCallId = id}
CallCount(t, id) == BagCardinality([c \in CallsFor(t, id) |-> calls[c]])

\* The events of the channel that carry call id `id`.
EventsFor(id) ==
    {k \in 1..Len(writer) : writer[k].type = "tool-output-available"
                            /\ writer[k].phase = "resolver"
                            /\ writer[k].toolCallId = id}

Sentinels == {"Yes, confirmed.", "No, denied."}

\* A static tool-call part in output-available state that carries `sentinel`
\* and whose tool name is a key of the registry.
RegisteredWith(part, sentinel) ==
    /\ part.type[1] = "tool-"
    /\ part.type[2] \in DOMAIN Registry
    /\ part.state = "output-available"
    /\ part.output = sentinel

\* The one executor call claim C1 describes for the part at pos.
ExpectedCall(pos) ==
    [turn |-> turn, toolName |-> PartAt(cleanedMessages, pos).type[2],
     input |-> PartAt(cleanedMessages, pos).input,
     toolCallId |-> PartAt(cleanedMessages, pos).toolCallId,
     messages |-> convertToModelMessages(cleanedMessages)]

OneExpectedCall(pos) ==
    LET id == PartAt(cleanedMessages, pos).toolCallId
    IN  /\ CallCount(turn, id) <= 1
        /\ CallsFor(turn, id) \subseteq {ExpectedCall(pos)}
        /\ Returned => CallCount(turn, id) = 1

\* C1 as stated: every part with a registered tool name, state
\* output-available and the APPROVED sentinel gets exactly one executor call
\* in the pass (the executor under its own name, with its input, its call id
\* and the projection of the input list), also when the registry holds no
\* function under that name.
C1_AsStated ==
    \A pos \in DOMAIN task :
        RegisteredWith(PartAt(cleanedMessages, pos), "Yes, confirmed.")
            => OneExpectedCall(pos)

\* C1 (amended): every part whose tool name has an executor function in the
\* registry, in state output-available with the APPROVED sentinel, gets at
\* most one executor call while the pass runs and exactly one once it has
\* returned: the executor under the part's own name, called with the part's
\* input, its call id and the projection of the full input list.
C1_ApprovedRunsItsExecutorOnce ==
    \A pos \in DOMAIN task :
        (/\ RegisteredWith(PartAt(cleanedMessages, pos), "Yes, confirmed.")
         /\ Registry[PartAt(cleanedMessages, pos).type[2]] = "fn")
            => OneExpectedCall(pos)

\* Two approved parts of one pass have both been executed and the pass has
\* returned.
C1_Witness ==
    /\ Returned
    /\ \E p1, p2 \in DOMAIN task :
          /\ p1 # p2
          /\ RegisteredWith(PartAt(cleanedMessages, p1), "Yes, confirmed.")
          /\ RegisteredWith(PartAt(cleanedMessages, p2), "Yes, confirmed.")
          /\ PartAt(cleanedMessages, p1).type[2] = "getWeather"
          /\ PartAt(cleanedMessages, p2).type[2] = "scheduleTask"
          /\ CallCount(turn, PartAt(cleanedMessages, p1).toolCallId) = 1
          /\ CallCount(turn, PartAt(cleanedMessages, p2).toolCallId) = 1

\* C2: a part with a registered tool name, state output-available and the
\* DENIED sentinel never has an executor invoked, and in the returned list
\* its output is the denial error string, which is non-empty and is neither
\* sentinel.
C2_DeniedNeverExecutes ==
    \A pos \in DOMAIN task :
        RegisteredWith(PartAt(cleanedMessages, pos), "No, denied.")
            => /\ CallCount(turn, PartAt(cleanedMessages, pos).toolCallId) = 0
               /\ Returned =>
                     /\ PartAt(processedMessages, pos).output =
                            "Error: User denied access to tool execution"
                     /\ PartAt(processedMessages, pos).output # ""
                     /\ PartAt(processedMessages, pos).output \notin Sentinels

\* A pass with a denied part has returned.
C2_Witness ==
    /\ Returned
    /\ \E pos \in DOMAIN task :
          /\ RegisteredWith(PartAt(cleanedMessages, pos), "No, denied.")
          /\ PartAt(processedMessages, pos).output # "No, denied."

\* C3: over all the turns of a session no call id has its executor invoked
\* more than once.
C3_ExecutedOnceAcrossTurns ==
    \A c \in BagToSet(calls) :
        BagCardinality([d \in {e \in BagToSet(calls) : e.toolCallId = c.toolCallId}
                           |-> calls[d]]) <= 1

\* C4: in a second pass over the list a first pass returned, a part whose
\* output after the first pass is a real (non-sentinel) value has no
\* executor invoked, no event written for it, and the same output in the
\* list the second pass returns.
C4_SecondPassStable ==
    turn = 2 =>
        \A pos \in DOMAIN task :
            LET part == PartAt(cleanedMessages, pos)
            IN  (part.type[1] # "text" /\ part.output \notin Sentinels) =>
                    /\ CallCount(2, part.toolCallId) = 0
                    /\ EventsFor(part.toolCallId) = {}
                    /\ pc = "returned" =>
                          PartAt(processedMessages, pos).output = part.output

\* The second pass has returned over a list in which the first pass replaced
\* an APPROVED sentinel by the executor's result.
C4_Witness ==
    /\ turn = 2
    /\ pc = "returned"
    /\ \E pos \in DOMAIN task :
          /\ PartAt(messages, pos).output = "Yes, confirmed."
          /\ PartAt(cleanedMessages, pos).output = "22C, sunny"
          /\ CallCount(1, PartAt(cleanedMessages, pos).toolCallId) = 1

\* C5: once streamText has been invoked, every part callback of the turn has
\* finished (no executor is pending or still to be called, none has
\* rejected), the event of every resolved part is in the channel, and in the
\* channel no resolver event follows a merged inference event.
C5_ResolverBeforeInference ==
    /\ pc \in {"streaming", "done"} =>
          /\ \A pos \in DOMAIN task : task[pos].st \in {"returned", "written"}
          /\ \A pos \in DOMAIN task :
                task[pos].st = "written" =>
                    EventsFor(PartAt(cleanedMessages, pos).toolCallId) # {}
    /\ \A j, k \in 1..Len(writer) :
          (writer[j].phase = "merge" /\ writer[k].phase = "resolver") => k < j
    /\ (\E k \in 1..Len(writer) : writer[k].phase = "merge") =>
          pc \in {"streaming", "done"}

\* An executor has run, its event and then an inference event are in the
\* channel.
C5_Witness ==
    /\ pc = "done"
    /\ \E j, k \in 1..Len(writer) :
          /\ writer[k].phase = "resolver"
          /\ writer[k].output = "22C, sunny"
          /\ writer[j].phase = "merge"

\* A part the pass resolved: it carried a sentinel and the returned list has
\* another output for it.
ResolvedAt(pos) ==
    /\ PartAt(cleanedMessages, pos).output \in Sentinels
    /\ PartAt(processedMessages, pos).output # PartAt(cleanedMessages, pos).output

\* C6: when processToolCalls has returned, the channel holds for every part
\* it resolved exactly one tool-output-available event with the part's call
\* id; the event carries the part's new output and was written before the
\* call returned.
C6_ResolvedPartEchoedOnce ==
    Returned =>
        \A pos \in DOMAIN task :
            ResolvedAt(pos) =>
                LET ev == EventsFor(PartAt(cleanedMessages, pos).toolCallId)
                IN  /\ Cardinality(ev) = 1
                    /\ \A k \in ev :
                          /\ writer[k].output = PartAt(processedMessages, pos).output
                          /\ ~writer[k].late

\* A pass that resolved an approved and a denied part has returned.
C6_Witness ==
    /\ Returned
    /\ \E p1, p2 \in DOMAIN task :
          /\ ResolvedAt(p1) /\ PartAt(cleanedMessages, p1).output = "Yes, confirmed."
          /\ PartAt(processedMessages, p1).output = "22C, sunny"
          /\ ResolvedAt(p2) /\ PartAt(cleanedMessages, p2).output = "No, denied."

\* C7: an executor that rejects does not make the call of processToolCalls
\* reject: the turn does not fail and the part ends with a result.
C7_RejectionStaysLocal ==
    /\ pc # "failed"
    /\ Returned => \A pos \in DOMAIN task : task[pos].st # "rejected"

\* C8: the list processToolCalls returns has the messages of its input in
\* the same order, each with its parts in the same order; a returned part
\* differs from the input part in nothing but its output, and only a part
\* that carried a sentinel in output-available state has another output.
C8_OrderAndShapePreserved ==
    Returned =>
        /\ Len(processedMessages) = Len(cleanedMessages)
        /\ \A i \in 1..Len(cleanedMessages) :
              LET before == cleanedMessages[i]
                  after == processedMessages[i]
              IN  /\ after.id = before.id
                  /\ after.role = before.role
                  /\ after.hasParts = before.hasParts
                  /\ Len(after.parts) = Len(before.parts)
                  /\ \A p \in 1..Len(before.parts) :
                        /\ [after.parts[p] EXCEPT !.output = before.parts[p].output]
                               = before.parts[p]
                        /\ after.parts[p].output # before.parts[p].output
                              => /\ before.parts[p].type[1] = "tool-"
                                 /\ before.parts[p].state = "output-available"
                                 /\ before.parts[p].output \in Sentinels

\* A returned list of two messages, one of two parts, in which one part was
\* resolved and another left alone.
C8_Witness ==
    /\ Returned
    /\ Len(processedMessages) >= 2
    /\ \E i, j \in 1..Len(processedMessages) :
          /\ i # j
          /\ Len(processedMessages[i].parts) = 2
          /\ \E p \in 1..2 :
                processedMessages[i].parts[p].output # cleanedMessages[i].parts[p].output
          /\ processedMessages[j] = cleanedMessages[j]

\* The messages claim C9 says survive: no static tool-call part in
\* input-streaming state, and none in input-available state that has neither
\* an output nor an errorText.
Survives(message) ==
    \A p \in 1..Len(message.parts) :
        LET part == message.parts[p]
        IN  part.type[1] = "tool-" =>
                /\ part.state # "input-streaming"
                /\ ~(/\ part.state = "input-available"
                     /\ part.output = "<undefined>"
                     /\ part.errorText = "<undefined>")

\* out is the sequence of the surviving messages of inp, unmodified and in
\* their order in inp.
SurvivorsOf(out, inp) ==
    LET kept == {i \in 1..Len(inp) : Survives(inp[i])}
        rank(i) == Cardinality({j \in kept : j <= i})
    IN  /\ Len(out) = Cardinality(kept)
        /\ \A i \in kept : out[rank(i)] = inp[i]

\* C9: the list cleanupMessages returns at the start of a turn is exactly
\* the surviving messages of the stored list, unmodified and in their
\* original order, and the stored list is left as it was.
C9_CleanupKeepsExactlyComplete ==
    [][StartTurn => (SurvivorsOf(cleanedMessages', messages) /\ messages' = messages)]_vars

\* A turn started on a stored list of which cleanupMessages removed a
\* message in input-streaming state and kept another.
C9_Witness ==
    /\ turn >= 1
    /\ Len(cleanedMessages) >= 1
    /\ Len(cleanedMessages) < Len(messages)
    /\ \E i \in 1..Len(messages) :
          \E p \in 1..Len(messages[i].parts) :
              messages[i].parts[p].state = "input-streaming"

\* C10: cleanupMessages applied to a list it returned gives that list again.
C10_CleanupIdempotent ==
    turn >= 1 => cleanupMessages(cleanedMessages) = cleanedMessages

\* cleanupMessages has removed something and kept something.
C10_Witness ==
    /\ turn >= 1
    /\ cleanedMessages # messages
    /\ cleanedMessages # <<>>

\* C11: a part that is no static tool-call part, or whose tool name is no
\* key of the execution registry, or whose state is not output-available, or
\* whose output is neither sentinel, has no executor invoked, no event
\* written for it, and is returned unchanged.
C11_OtherPartsUntouched ==
    \A pos \in DOMAIN task :
        LET part == PartAt(cleanedMessages, pos)
        IN  (\/ part.type[1] # "tool-"
             \/ part.type[2] \notin DOMAIN Registry
             \/ part.state # "output-available"
             \/ part.output \notin Sentinels)
                => /\ CallCount(turn, part.toolCallId) = 0
                   /\ EventsFor(part.toolCallId) = {}
                   /\ Returned => PartAt(processedMessages, pos) = part

\* An APPROVED part in output-available state whose tool name is a key of
\* the registry with no function stored under it.
MissingExecutorAt(pos) ==
    LET part == PartAt(cleanedMessages, pos)
    IN  /\ part.type[1] = "tool-"
        /\ part.type[2] \in DOMAIN Registry
        /\ Registry[part.type[2]] = "none"
        /\ part.state = "output-available"
        /\ part.output = "Yes, confirmed."

\* C13: for an APPROVED part whose registry entry holds no function the part
\* callback does not reject and calls nothing; exactly one event with the
\* string "Error: No execute function found on tool" is written for it, and
\* that string is the part's output in the returned list.
C13_MissingExecutorBecomesErrorString ==
    \A pos \in DOMAIN task :
        MissingExecutorAt(pos) =>
            LET id == PartAt(cleanedMessages, pos).toolCallId
            IN  /\ task[pos].st # "rejected"
                /\ CallCount(turn, id) = 0
                /\ Cardinality(EventsFor(id)) = 1
                /\ \A k \in EventsFor(id) :
                      writer[k].output = "Error: No execute function found on tool"
                /\ Returned => PartAt(processedMessages, pos).output =
                                   "Error: No execute function found on tool"

\* A pass has returned in which a part without executor got the error string
\* and another approved part got its executor's result.
C13_Witness ==
    /\ Returned
    /\ \E p1, p2 \in DOMAIN task :
          /\ MissingExecutorAt(p1)
          /\ PartAt(processedMessages, p1).output # "Yes, confirmed."
          /\ PartAt(cleanedMessages, p2).output = "Yes, confirmed."
          /\ PartAt(processedMessages, p2).output = "22C, sunny"

C17_ResolvedPartKeepsIdentity ==
    Returned =>
        \A pos \in DOMAIN task :
            LET before == PartAt(cleanedMessages, pos)
                after == PartAt(processedMessages, pos)
            IN  /\ ResolvedAt(pos) =>
                      /\ after.type = before.type
                      /\ after.toolCallId = before.toolCallId
                      /\ after.input = before.input
                      /\ after.state = "output-available"
                /\ before.state = "output-available" =>
                      after.state = "output-available"

\* A returned list in which one part was resolved by its executor and one by
\* a denial.
C17_Witness ==
    /\ Returned
    /\ \E p1, p2 \in DOMAIN task :
          /\ ResolvedAt(p1)
          /\ ResolvedAt(p2)
          /\ PartAt(cleanedMessages, p1).output = "Yes, confirmed."
          /\ PartAt(cleanedMessages, p2).output = "No, denied."
          /\ PartAt(processedMessages, p1).output = "22C, sunny"
          /\ PartAt(processedMessages, p1).state = "output-available"

\* C19: every tool-output-available event processToolCalls writes is written
\* while the call is pending; none is written after the call has returned or
\* rejected.
C19_NoEventAfterSettling ==
    \A k \in 1..Len(writer) :
        (writer[k].type = "tool-output-available" /\ writer[k].phase = "resolver")
            => ~writer[k].late

\* C20: a stored message with an incomplete tool-call part is left out of
\* every turn as a whole: in no turn is an executor called or an event
\* written for any of its parts, a part with an APPROVED or DENIED sentinel
\* included, and the message is not in the list given to processToolCalls.
C20_SentinelBesideIncompleteUnresolved ==
    \A i \in 1..Len(messages) :
        ~Survives(messages[i]) =>
            /\ \A j \in 1..Len(cleanedMessages) : cleanedMessages[j].id # messages[i].id
            /\ \A p \in 1..Len(messages[i].parts) :
                  LET part == messages[i].parts[p]
                  IN  part.type[1] = "tool-" =>
                          /\ \A c \in BagToSet(calls) : c.toolCallId # part.toolCallId
                          /\ EventsFor(part.toolCallId) = {}

\* Two turns are over; the stored list holds a message with an APPROVED part
\* beside an incomplete one, and the second turn called an executor for a
\* part of another message.
C20_Witness ==
    /\ turn = 2
    /\ pc = "done"
    /\ \E c \in BagToSet(calls) : c.turn = 2
    /\ \E i \in 1..Len(messages) :
          /\ ~Survives(messages[i])
          /\ \E p \in 1..Len(messages[i].parts) :
                /\ messages[i].parts[p].state = "output-available"
                /\ messages[i].parts[p].output = "Yes, confirmed."

\* C12: over every interleaving of the flight agent's onChatMessage calls,
\* registerServer and connectToServer are each performed at most once, and a
\* call that finds the server connected performs neither.
C12_RegistersAndConnectsOnce ==
    /\ conn.registers <= 1
    /\ conn.connects <= 1

\* C15: formatFlightResults throws for no argument, an offer without
\* price or airlines or a segment without departure or arrival included.
C15_FormatNeverThrows ==
    formatOutput # <<>> => ~formatOutput[1].threw

\* C16: the price of every offer is rendered with the currency's symbol when
\* the currency is EUR or USD, and with the currency code itself otherwise.
C16_UnknownCurrencyKeepsItsCode ==
    (formatOutput # <<>> /\ ~formatOutput[1].threw
        /\ formatInput.kind = "object" /\ "offers" \in DOMAIN formatInput.f
        /\ formatInput.f.offers.kind = "array") =>
        \A k \in 1..Len(formatInput.f.offers.items) :
            LET price == formatInput.f.offers.items[k].price
                mark == formatOutput[1].prices[k].mark
            IN  /\ price.currency = "EUR" => mark = "<euro>"
                /\ price.currency = "USD" => mark = "$"
                /\ price.currency \notin {"EUR", "USD"} => mark = price.currency

\* The call ids of the tool-call parts of the stored messages that hold an
\* incomplete tool call.
IncompleteMessageCallIds ==
    UNION {{messages[i].parts[p].toolCallId :
               p \in {q \in 1..Len(messages[i].parts) :
                         messages[i].parts[q].type[1] = "tool-"}} :
              i \in {j \in 1..Len(messages) : ~Survives(messages[j])}}

\* The call ids the items of a projected list carry.
ProjectedCallIds(list) ==
    UNION {{list[i].content[k].toolCallId : k \in 1..Len(list[i].content)} :
              i \in 1..Len(list)}

\* C18: in a turn of either agent the stored messages are cleaned before
\* anything else sees them: no message with an incomplete tool call is in the
\* list given to processToolCalls, and no part of such a message is in the
\* context of an executor call or in the list given to the inference call.
C18_CleanedBeforeResolving ==
    /\ \A j \in 1..Len(cleanedMessages) : Survives(cleanedMessages[j])
    /\ \A c \in BagToSet(calls) :
          ProjectedCallIds(c.messages) \cap IncompleteMessageCallIds = {}
    /\ ProjectedCallIds(modelMessages) \cap IncompleteMessageCallIds = {}

\* A turn of the flight agent over a stored list with an incomplete message
\* has called an executor and reached the inference call.
C18_Witness ==
    /\ agent = "flight"
    /\ pc = "streaming"
    /\ IncompleteMessageCallIds # {}
    /\ calls # EmptyBag
    /\ modelMessages # <<>>
    /\ Len(cleanedMessages) < Len(messages)

====
